---- MODULE Spec2Model ----
(***************************************************************************)
(* Model of main.py: the cache_response decorator wrapped around           *)
(* get_user_details, with the Redis cache behind aiocache as a key/value   *)
(* store with per-entry TTL.                                               *)
(*                                                                         *)
(* Every call of the decorated function is a coroutine.  asyncio runs      *)
(* coroutines one at a time and switches between them only at an await,    *)
(* so each action below is the code between two awaits of one call:        *)
(*   Invoke         wrapper lines 30-40, up to the await of cache.get      *)
(*   CacheGet       the reply of cache.get and lines 41-49, up to the      *)
(*                  await of func                                          *)
(*   ProducerFinish the end of func (lines 81-90) and line 54 up to the    *)
(*                  await of cache.set                                     *)
(*   CacheSet       the reply of cache.set and lines 55/60                 *)
(* The store is the cache as cache.get and cache.set address it: one entry  *)
(* per key that wrapper passes, shared by all decorations (what aiocache    *)
(* itself does with the namespace it is constructed with is not in          *)
(* main.py and is not modelled).                                           *)
(* A cached value (a Python str) is a sequence of one-character strings,   *)
(* so that json.dumps / json.loads are computed character by character.    *)
(***************************************************************************)
EXTENDS Integers, Sequences, FiniteSets, TLC

(***************************************************************************)
(* Python values.                                                          *)
(***************************************************************************)
\* An optional value: None is the empty tuple, a present value v is <<v>>.
None == << >>
Some(v) == << v >>

PyInt(n) == [int |-> n]
PyStr(s) == [str |-> s]
\* The three kinds are records of different fields, told apart by IsInt etc.
\* A dict keeps its items in insertion order: a sequence of <<key, value>>.
PyDict(items) == [dict |-> items]

IsInt(x) == DOMAIN x = {"int"}
IsStr(x) == DOMAIN x = {"str"}
IsDict(x) == DOMAIN x = {"dict"}

\* Python's None as a value (JSON null).
PyNone == [none |-> TRUE]
IsNone(x) == DOMAIN x = {"none"}

\* bool(x).
PyTruthy(x) ==
    IF IsNone(x) THEN FALSE
    ELSE IF IsInt(x) THEN x.int # 0
    ELSE IF IsStr(x) THEN Len(x.str) > 0
    ELSE Len(x.dict) > 0

Digits == <<"0", "1", "2", "3", "4", "5", "6", "7", "8", "9">>

DigitSet == {Digits[i] : i \in 1..10}

DigitValue(ch) == (CHOOSE i \in 1..10 : Digits[i] = ch) - 1

\* str(n) of a non-negative int, as characters.
RECURSIVE NatChars(_)
NatChars(n) ==
    IF n < 10 THEN << Digits[n + 1] >>
    ELSE NatChars(n \div 10) \o << Digits[(n % 10) + 1] >>

\* str(n) of an int, as characters.
IntChars(n) == IF n < 0 THEN <<"-">> \o NatChars(0 - n) ELSE NatChars(n)

(***************************************************************************)
(* json.dumps with the default separators (", " and ": ") and json.loads,  *)
(* for None, ints, strings and dicts.                                      *)
(***************************************************************************)
\* The body of a JSON string: '"' and '\' are escaped with a backslash.
RECURSIVE EscapeChars(_)
EscapeChars(s) ==
    IF s = << >> THEN << >>
    ELSE (IF Head(s) \in {"\"", "\\"} THEN <<"\\", Head(s)>> ELSE << Head(s) >>)
         \o EscapeChars(Tail(s))

QuoteChars(s) == <<"\"">> \o EscapeChars(s) \o <<"\"">>

\* A dict key is written as a JSON string; an int key is coerced to its text.
DumpKey(k) == IF IsInt(k) THEN QuoteChars(IntChars(k.int)) ELSE QuoteChars(k.str)

RECURSIVE json_dumps(_)
RECURSIVE DumpItems(_)
DumpItems(items) ==
    IF items = << >> THEN << >>
    ELSE DumpKey(Head(items)[1]) \o <<":", " ">> \o json_dumps(Head(items)[2])
         \o (IF Tail(items) = << >> THEN << >> ELSE <<",", " ">> \o DumpItems(Tail(items)))

\* Mutant of json_dumps: an int is written as a JSON string.
json_dumps_quoted_int(x) ==
    IF IsNone(x) THEN <<"n", "u", "l", "l">>
    ELSE IF IsInt(x) THEN QuoteChars(IntChars(x.int))
    ELSE IF IsStr(x) THEN QuoteChars(x.str)
    ELSE <<"{">> \o DumpItems(x.dict) \o <<"}">>

json_dumps(x) ==
    IF IsNone(x) THEN <<"n", "u", "l", "l">>
    ELSE IF IsInt(x) THEN IntChars(x.int)
    ELSE IF IsStr(x) THEN QuoteChars(x.str)
    ELSE <<"{">> \o DumpItems(x.dict) \o <<"}">>

\* The scanner: each Parse* takes the text and a position and gives the
\* value read and the position after it.
RECURSIVE SkipSpace(_, _)
SkipSpace(s, i) == IF i <= Len(s) /\ s[i] = " " THEN SkipSpace(s, i + 1) ELSE i

RECURSIVE ParseNat(_, _, _)
ParseNat(s, i, acc) ==
    IF i <= Len(s) /\ s[i] \in DigitSet
    THEN ParseNat(s, i + 1, acc * 10 + DigitValue(s[i]))
    ELSE [val |-> acc, pos |-> i]

ParseInt(s, i) ==
    IF s[i] = "-"
    THEN LET r == ParseNat(s, i + 1, 0) IN [val |-> PyInt(0 - r.val), pos |-> r.pos]
    ELSE LET r == ParseNat(s, i, 0) IN [val |-> PyInt(r.val), pos |-> r.pos]

\* i is the position after the opening quote.
RECURSIVE ParseStringBody(_, _, _)
ParseStringBody(s, i, acc) ==
    IF s[i] = "\"" THEN [val |-> PyStr(acc), pos |-> i + 1]
    ELSE IF s[i] = "\\" THEN ParseStringBody(s, i + 2, Append(acc, s[i + 1]))
    ELSE ParseStringBody(s, i + 1, Append(acc, s[i]))

RECURSIVE ParseValue(_, _)
RECURSIVE ParseMembers(_, _, _)
\* i is the position of the opening quote of the next key.
ParseMembers(s, i, acc) ==
    LET k == ParseStringBody(s, i + 1, << >>)
        colon == SkipSpace(s, k.pos)
        v == ParseValue(s, SkipSpace(s, colon + 1))
        after == SkipSpace(s, v.pos)
        items == Append(acc, <<k.val, v.val>>)
    IN  IF s[after] = "," THEN ParseMembers(s, SkipSpace(s, after + 1), items)
        ELSE [val |-> PyDict(items), pos |-> after + 1]

ParseValue(s, i) ==
    IF s[i] = "{"
    THEN LET j == SkipSpace(s, i + 1)
         IN  IF s[j] = "}" THEN [val |-> PyDict(<< >>), pos |-> j + 1]
             ELSE ParseMembers(s, j, << >>)
    ELSE IF s[i] = "\"" THEN ParseStringBody(s, i + 1, << >>)
    ELSE IF s[i] = "n" THEN [val |-> PyNone, pos |-> i + 4]
    ELSE ParseInt(s, i)

json_loads(s) == ParseValue(s, SkipSpace(s, 1)).val

(***************************************************************************)
(* Bounds of the model.                                                    *)
(***************************************************************************)
\* Calls of the decorated function, each one coroutine.
MaxCalls == 2
\* How many times the clock advances.
MaxTicks == 2

Calls == 1..MaxCalls

(***************************************************************************)
(* The program's data.                                                     *)
(***************************************************************************)
\* ttl of cache_response when none is given, and of the decoration of
\* get_user_details, in seconds.
DefaultTtl == 60
UsersTtl == 120

\* The decorations: the one of get_user_details (line 80) and one with the
\* decorator's defaults (line 19) around the same producer.
Decorations ==
    { [namespace |-> "users", ttl |-> UsersTtl],
      [namespace |-> "main", ttl |-> DefaultTtl] }

\* The clock advances by the shortest TTL.
TickStep == DefaultTtl

Alice ==
    PyDict(<< <<PyStr(<<"i", "d">>), PyInt(1)>>,
              <<PyStr(<<"n", "a", "m", "e">>), PyStr(<<"A", "l", "i", "c", "e">>)>>,
              <<PyStr(<<"e", "m", "a", "i", "l">>),
                PyStr(<<"a", "l", "i", "c", "e", "@", "e", "x", "a", "m", "p", "l", "e",
                        ".", "c", "o", "m">>)>>,
              <<PyStr(<<"a", "g", "e">>), PyInt(25)>> >>)

Bob ==
    PyDict(<< <<PyStr(<<"i", "d">>), PyInt(2)>>,
              <<PyStr(<<"n", "a", "m", "e">>), PyStr(<<"B", "o", "b">>)>>,
              <<PyStr(<<"e", "m", "a", "i", "l">>),
                PyStr(<<"b", "o", "b", "@", "e", "x", "a", "m", "p", "l", "e",
                        ".", "c", "o", "m">>)>>,
              <<PyStr(<<"a", "g", "e">>), PyInt(30)>> >>)

Charlie ==
    PyDict(<< <<PyStr(<<"i", "d">>), PyInt(3)>>,
              <<PyStr(<<"n", "a", "m", "e">>),
                PyStr(<<"C", "h", "a", "r", "l", "i", "e">>)>>,
              <<PyStr(<<"e", "m", "a", "i", "l">>),
                PyStr(<<"c", "h", "a", "r", "l", "i", "e", "@", "e", "x", "a", "m", "p",
                        "l", "e", ".", "c", "o", "m">>)>>,
              <<PyStr(<<"a", "g", "e">>), PyInt(22)>> >>)

users_db == << Alice, Bob, Charlie >>

\* users_db.get(user_id): the record, or None.
UsersDbGet(id) == IF id \in DOMAIN users_db THEN Some(users_db[id]) ELSE None

\* The identifiers the calls are made with: a falsy one, one of users_db and
\* one that users_db does not hold.
Ids == {0, 1, 99}

\* The keyword arguments of a call: a sequence of <<name, value>>.
KwargsGet(kwargs, name) ==
    IF \E i \in DOMAIN kwargs : kwargs[i][1] = name
    THEN Some(kwargs[CHOOSE i \in DOMAIN kwargs : kwargs[i][1] = name][2])
    ELSE None

\* The calls made: get_user_details takes one parameter, given by position
\* or by keyword, and the wrapper also accepts a call without arguments.
Invocations ==
    { [args |-> << >>, kwargs |-> << >>] }
    \cup { [args |-> << i >>, kwargs |-> << >>] : i \in Ids }
    \cup { [args |-> << >>, kwargs |-> << <<"user_id", i>> >>] : i \in Ids }

(***************************************************************************)
(* Exceptions and the outcome of a call.                                   *)
(***************************************************************************)
Exception(type, status_code, detail) ==
    [type |-> type, status_code |-> status_code, detail |-> detail]

IndexError == Exception("IndexError", 0, "tuple index out of range")
NameError == Exception("NameError", 0, "name 'asyncio' is not defined")
ConnectionError == Exception("ConnectionError", 0, "cache backend unreachable")
UserNotFound == Exception("HTTPException", 404, "User not found")
ErrorCachingData(e) ==
    Exception("HTTPException", 500, "Error caching data: " \o e.detail)

Pending == [kind |-> "pending"]
Return(v) == [kind |-> "return", value |-> v]
Raise(e) == [kind |-> "raise", exc |-> e]

(***************************************************************************)
(* The pieces of wrapper.                                                  *)
(***************************************************************************)
\* Truth value of an optional int (None and 0 are falsy).
TruthyInt(o) == o # None /\ o[1] # 0

\* Truth value of an optional str (None and "" are falsy).
TruthyStr(o) == o # None /\ Len(o[1]) > 0

\* Mutant of DeriveUserId: without arguments the identifier defaults to 0.
DeriveUserIdDefault(args, kwargs) ==
    LET k == KwargsGet(kwargs, "user_id")
    IN  IF TruthyInt(k) THEN Return(k[1])
        ELSE IF Len(args) = 0 THEN Return(0)
        ELSE Return(args[1])

\* Line 32: kwargs.get('user_id') or args[0].  The result is Return(id), or
\* Raise(IndexError) when args[0] is evaluated on an empty args.
DeriveUserId(args, kwargs) ==
    LET k == KwargsGet(kwargs, "user_id")
    IN  IF TruthyInt(k) THEN Return(k[1])
        ELSE IF Len(args) = 0 THEN Raise(IndexError)
        ELSE Return(args[1])

\* Mutant of CacheKey: the namespace is left out of the key.
CacheKeyNoNamespace(namespace, user_id) == "user:" \o ToString(user_id)

\* Mutant of CacheKey: the resource tag is left out of the key.
CacheKeyNoTag(namespace, user_id) == namespace \o ":" \o ToString(user_id)

\* Line 33: f"{namespace}:user:{user_id}".
CacheKey(namespace, user_id) == namespace \o ":user:" \o ToString(user_id)

\* Mutant of IsHit: the decoded value is tested, not the stored text.
IsHitDecoded(cached_value) ==
    TruthyStr(cached_value) /\ PyTruthy(json_loads(cached_value[1]))

\* Line 41: `if cached_value:`.
IsHit(cached_value) == TruthyStr(cached_value)

\* Line 44: what a hit returns.
HitResult(cached_value) == Return(json_loads(cached_value[1]))

\* Mutant of AfterGet: the hit branch does not return.
AfterGetNoReturn(cached_value) == "func"

\* Lines 41-49: after the read, wrapper returns on a hit and goes on to func
\* on a miss.
AfterGet(cached_value) == IF IsHit(cached_value) THEN "return" ELSE "func"

\* Mutant of AfterProducer: func is called inside the try of lines 51-58.
AfterProducerInsideTry(r) ==
    IF r.kind = "raise" THEN Raise(ErrorCachingData(r.exc)) ELSE r

\* Mutant of AfterProducer: a failure of func is swallowed and an empty
\* record goes on to the write-back.
AfterProducerSwallowed(r) ==
    IF r.kind = "raise" THEN Return(PyDict(<< >>)) ELSE r

\* Line 49: `response = await func(*args, **kwargs)` is outside the try, so
\* what func returns or raises is what wrapper goes on with.
AfterProducer(r) == r

\* Mutant of SetTtl: the ttl is given in the wrong unit.
SetTtlWrongUnit(deco) == Some(deco.ttl \div 1000)

\* Mutant of SetTtl: no ttl is given.
SetTtlMissing(deco) == None

\* Line 54: the ttl given to cache.set.
SetTtl(deco) == Some(deco.ttl)

\* Mutant of SetFailed: the failure is logged and the result returned.
SetFailedLogged(e, response) == Return(response)

\* Lines 56-58: a failure of line 54 becomes an HTTP 500.
SetFailed(e, response) == Raise(ErrorCachingData(e))

\* Line 60.
SetDone(response) == Return(response)

\* Line 81: the parameter user_id of func(*args, **kwargs).
BoundUserId(args, kwargs) ==
    IF Len(args) > 0 THEN args[1] ELSE KwargsGet(kwargs, "user_id")[1]

\* Lines 85-90.
get_user_details(user_id) ==
    LET user == UsersDbGet(user_id)
    IN  IF user = None THEN Raise(UserNotFound) ELSE Return(user[1])

(***************************************************************************)
(* State.                                                                  *)
(***************************************************************************)
VARIABLES
    asyncio_imported, \* whether main.py ran as __main__ (line 97) or was imported
    now,              \* the clock, in seconds
    store,            \* the Redis store: key -> [value, expire_at]
    written,          \* history: key -> [at, by] of the last successful set
    pc,               \* where each call is: idle, get, func, set, done
    deco,             \* the decoration each call goes through
    args,             \* wrapper's *args
    kwargs,           \* wrapper's **kwargs
    user_id,          \* wrapper's local user_id (optional)
    cache_key,        \* wrapper's local cache_key ("" before line 33)
    cached_value,     \* wrapper's local cached_value (optional)
    response,         \* wrapper's local response (optional)
    set_value,        \* the value given to cache.set (optional)
    outcome,          \* what the call returned or raised
    trace             \* history of each call

vars ==
    << asyncio_imported, now, store, written, pc, deco, args, kwargs, user_id,
       cache_key, cached_value, response, set_value, outcome, trace >>

NoTrace ==
    [ reads |-> 0,         \* cache.get calls issued
      invoked |-> 0,       \* calls of func
      writes |-> 0,        \* cache.set calls issued
      read |-> "none",     \* none, hit, miss or error
      hit_by |-> 0,        \* on a hit, the call whose set was read
      get_key |-> "",      \* the key given to cache.get
      set_key |-> "",      \* the key given to cache.set
      wrote |-> "none",    \* none, ok or error: how cache.set ended
      found |-> "none",    \* at the read, the last set of the key: never, fresh, expired
      produced |-> Pending,\* what func returned or raised
      after |-> {} ]       \* the calls with this one's identifier that had
                           \* ended when this one began

AnyDeco == CHOOSE d \in Decorations : TRUE

Init ==
    /\ asyncio_imported \in BOOLEAN
    /\ now = 0
    /\ store = << >>
    /\ written = << >>
    /\ pc = [c \in Calls |-> "idle"]
    /\ deco = [c \in Calls |-> AnyDeco]
    /\ args = [c \in Calls |-> << >>]
    /\ kwargs = [c \in Calls |-> << >>]
    /\ user_id = [c \in Calls |-> None]
    /\ cache_key = [c \in Calls |-> ""]
    /\ cached_value = [c \in Calls |-> None]
    /\ response = [c \in Calls |-> None]
    /\ set_value = [c \in Calls |-> None]
    /\ outcome = [c \in Calls |-> Pending]
    /\ trace = [c \in Calls |-> NoTrace]

(***************************************************************************)
(* The cache backend.                                                      *)
(***************************************************************************)
\* Whether an entry is still kept at time t.
Alive(entry, t) == entry.expire_at = None \/ entry.expire_at[1] > t

\* cache.get(key) at time t: the stored value, or None.
BackendGet(st, key, t) ==
    IF key \in DOMAIN st /\ Alive(st[key], t) THEN Some(st[key].value) ELSE None

\* Mutant of BackendSet: an entry that is already held is kept (set if absent).
BackendSetIfAbsent(st, key, value, ttl, t) ==
    [k \in DOMAIN st \cup {key} |->
        IF k \in DOMAIN st THEN st[k]
        ELSE [value |-> value,
              expire_at |-> IF ttl = None THEN None ELSE Some(t + ttl[1])]]

\* Mutant of BackendSet: the set clears the other entries.
BackendSetClearing(st, key, value, ttl, t) ==
    [k \in {key} |->
        [value |-> value,
         expire_at |-> IF ttl = None THEN None ELSE Some(t + ttl[1])]]

\* cache.set(key, value, ttl=ttl) at time t: ttl None keeps the entry for ever.
BackendSet(st, key, value, ttl, t) ==
    [k \in DOMAIN st \cup {key} |->
        IF k = key
        THEN [value |-> value,
              expire_at |-> IF ttl = None THEN None ELSE Some(t + ttl[1])]
        ELSE st[k]]

\* The backend discards the entries whose time has come.
BackendExpire(st, t) ==
    [k \in {j \in DOMAIN st : Alive(st[j], t)} |-> st[k]]

(***************************************************************************)
(* The steps of a call.                                                    *)
(***************************************************************************)
End(c, result) ==
    /\ pc' = [pc EXCEPT ![c] = "done"]
    /\ outcome' = [outcome EXCEPT ![c] = result]

\* History: whether the key of call c was set, and whether the ttl of c's
\* decoration has passed since the last set.
LastSet(c) ==
    IF cache_key[c] \notin DOMAIN written THEN "never"
    ELSE IF now < written[cache_key[c]].at + deco[c].ttl THEN "fresh"
    ELSE "expired"

\* Lines 30-40: the call begins, derives its key and asks the cache.
Invoke(c, d, inv) ==
    /\ pc[c] = "idle"
    /\ \A b \in Calls : b < c => pc[b] # "idle"
    /\ deco' = [deco EXCEPT ![c] = d]
    /\ args' = [args EXCEPT ![c] = inv.args]
    /\ kwargs' = [kwargs EXCEPT ![c] = inv.kwargs]
    /\ LET id == DeriveUserId(inv.args, inv.kwargs)
           began == [trace[c] EXCEPT !.after =
                        {b \in Calls : pc[b] = "done" /\ id.kind = "return"
                                                     /\ user_id[b] = Some(id.value)}]
       IN  IF id.kind = "raise"
           THEN /\ End(c, id)
                /\ trace' = [trace EXCEPT ![c] = began]
                /\ UNCHANGED << user_id, cache_key >>
           ELSE /\ user_id' = [user_id EXCEPT ![c] = Some(id.value)]
                /\ cache_key' = [cache_key EXCEPT ![c] = CacheKey(d.namespace, id.value)]
                /\ pc' = [pc EXCEPT ![c] = "get"]
                /\ trace' = [trace EXCEPT ![c] =
                        [began EXCEPT !.reads = @ + 1,
                                      !.get_key = CacheKey(d.namespace, id.value)]]
                /\ UNCHANGED outcome
    /\ UNCHANGED << asyncio_imported, now, store, written, cached_value, response,
                    set_value >>

\* Lines 40-49: cache.get answers; on a hit wrapper returns the decoded
\* value, on a miss it calls func and waits for it.
CacheGet(c) ==
    /\ pc[c] = "get"
    /\ LET v == BackendGet(store, cache_key[c], now)
           got == [trace[c] EXCEPT !.found = LastSet(c),
                                   !.read = IF IsHit(v) THEN "hit" ELSE "miss",
                                   !.hit_by = IF IsHit(v) THEN written[cache_key[c]].by
                                              ELSE 0]
       IN  /\ cached_value' = [cached_value EXCEPT ![c] = v]
           /\ IF AfterGet(v) = "return"
              THEN /\ End(c, HitResult(v))
                   /\ trace' = [trace EXCEPT ![c] = got]
              ELSE /\ pc' = [pc EXCEPT ![c] = "func"]
                   /\ trace' = [trace EXCEPT ![c] = [got EXCEPT !.invoked = @ + 1]]
                   /\ UNCHANGED outcome
    /\ UNCHANGED << asyncio_imported, now, store, written, deco, args, kwargs,
                    user_id, cache_key, response, set_value >>

\* Mutant of CacheGetFails: a failed cache.get is caught and taken as a miss.
CacheGetFailsAsMiss(c) ==
    /\ pc[c] = "get"
    /\ pc' = [pc EXCEPT ![c] = "func"]
    /\ trace' = [trace EXCEPT ![c] =
            [@ EXCEPT !.read = "error", !.found = LastSet(c), !.invoked = @ + 1]]
    /\ UNCHANGED << asyncio_imported, now, store, written, deco, args, kwargs,
                    user_id, cache_key, cached_value, response, set_value, outcome >>

\* Line 40 when the backend cannot be reached: cache.get raises, and nothing
\* in wrapper catches it.
CacheGetFails(c) ==
    /\ pc[c] = "get"
    /\ End(c, Raise(ConnectionError))
    /\ trace' = [trace EXCEPT ![c] = [@ EXCEPT !.read = "error", !.found = LastSet(c)]]
    /\ UNCHANGED << asyncio_imported, now, store, written, deco, args, kwargs,
                    user_id, cache_key, cached_value, response, set_value >>

\* Lines 81-90, func bound to the call's arguments.  asyncio is a global of
\* main.py only when the file ran as __main__ (line 97); when it was imported,
\* line 84 raises NameError.
Producer(a, kw) ==
    IF asyncio_imported THEN get_user_details(BoundUserId(a, kw))
    ELSE Raise(NameError)

\* Lines 49-54: func ends; its failure leaves wrapper, its result is encoded
\* and given to cache.set.
ProducerFinish(c) ==
    /\ pc[c] = "func"
    /\ LET r == Producer(args[c], kwargs[c])
           w == AfterProducer(r)
           ended == [trace[c] EXCEPT !.produced = r]
       IN  IF w.kind = "raise"
           THEN /\ End(c, w)
                /\ trace' = [trace EXCEPT ![c] = ended]
                /\ UNCHANGED << response, set_value >>
           ELSE /\ response' = [response EXCEPT ![c] = Some(w.value)]
                /\ set_value' = [set_value EXCEPT ![c] = Some(json_dumps(w.value))]
                /\ pc' = [pc EXCEPT ![c] = "set"]
                /\ trace' = [trace EXCEPT ![c] =
                        [ended EXCEPT !.writes = @ + 1, !.set_key = cache_key[c]]]
                /\ UNCHANGED outcome
    /\ UNCHANGED << asyncio_imported, now, store, written, deco, args, kwargs,
                    user_id, cache_key, cached_value >>

\* Lines 54-60: cache.set is done and the call returns func's result.
CacheSet(c) ==
    /\ pc[c] = "set"
    /\ store' = BackendSet(store, cache_key[c], set_value[c][1], SetTtl(deco[c]), now)
    /\ written' = [k \in DOMAIN written \cup {cache_key[c]} |->
                      IF k = cache_key[c] THEN [at |-> now, by |-> c] ELSE written[k]]
    /\ End(c, SetDone(response[c][1]))
    /\ trace' = [trace EXCEPT ![c] = [@ EXCEPT !.wrote = "ok"]]
    /\ UNCHANGED << asyncio_imported, now, deco, args, kwargs, user_id, cache_key,
                    cached_value, response, set_value >>

\* Mutant of CacheSetFails: a failed cache.set is issued again.
CacheSetFailsRetried(c) ==
    /\ pc[c] = "set"
    /\ trace[c].writes < 3
    /\ trace' = [trace EXCEPT ![c] = [@ EXCEPT !.writes = @ + 1]]
    /\ UNCHANGED << asyncio_imported, now, store, written, pc, deco, args, kwargs,
                    user_id, cache_key, cached_value, response, set_value, outcome >>

\* Lines 54-58: cache.set raises, and the call raises the HTTP 500.
CacheSetFails(c) ==
    /\ pc[c] = "set"
    /\ End(c, SetFailed(ConnectionError, response[c][1]))
    /\ trace' = [trace EXCEPT ![c] = [@ EXCEPT !.wrote = "error"]]
    /\ UNCHANGED << asyncio_imported, now, store, written, deco, args, kwargs,
                    user_id, cache_key, cached_value, response, set_value >>

\* Time passes, and the backend discards what has expired.
Tick ==
    /\ now < MaxTicks * TickStep
    /\ now' = now + TickStep
    /\ store' = BackendExpire(store, now + TickStep)
    /\ UNCHANGED << asyncio_imported, written, pc, deco, args, kwargs, user_id,
                    cache_key, cached_value, response, set_value, outcome, trace >>

Next ==
    \/ \E c \in Calls, d \in Decorations, inv \in Invocations : Invoke(c, d, inv)
    \/ \E c \in Calls : CacheGet(c)
    \/ \E c \in Calls : CacheGetFails(c)
    \/ \E c \in Calls : ProducerFinish(c)
    \/ \E c \in Calls : CacheSet(c)
    \/ \E c \in Calls : CacheSetFails(c)
    \/ Tick

Spec == Init /\ [][Next]_vars

(***************************************************************************)
(* Properties.                                                             *)
(***************************************************************************)
SameIdentifier(c1, c2) ==
    /\ user_id[c1] # None
    /\ user_id[c1] = user_id[c2]
    /\ deco[c1].namespace = deco[c2].namespace

\* The call returned what its producer returned.
ReturnedProduced(c) ==
    /\ trace[c].produced.kind = "return"
    /\ outcome[c] = trace[c].produced

\* C1: a call whose cache read gave a stored value for its key ends by
\* returning the decoded stored value, and the producer is not invoked in it.
C1_HitBypassesProducer ==
    \A c \in Calls :
        trace[c].read = "hit" =>
            /\ pc[c] = "done"
            /\ outcome[c] = Return(json_loads(cached_value[c][1]))
            /\ trace[c].invoked = 0
            /\ trace[c].produced = Pending

C1_Witness ==
    \E c \in Calls : trace[c].read = "hit" /\ pc[c] = "done" /\ outcome[c].kind = "return"

\* C2: when a first call returned its producer's result, and a second call
\* with the same identifier and namespace began after the first had ended and
\* had its cache read answered before the ttl had passed since the key was
\* last set, the second call returns the first call's producer output and the
\* producer ran at most once over the two calls.
C2_SecondCallWithinTtl ==
    \A c1, c2 \in Calls :
        ( /\ c1 \in trace[c2].after
          /\ SameIdentifier(c1, c2)
          /\ ReturnedProduced(c1)
          /\ trace[c2].read \in {"hit", "miss"}
          /\ trace[c2].found = "fresh" )
        => /\ pc[c2] = "done"
           /\ outcome[c2] = trace[c1].produced
           /\ trace[c1].invoked + trace[c2].invoked <= 1

C2_Witness ==
    \E c1, c2 \in Calls :
        /\ c1 \in trace[c2].after
        /\ SameIdentifier(c1, c2)
        /\ ReturnedProduced(c1)
        /\ trace[c2].found = "fresh"
        /\ pc[c2] = "done"
        /\ outcome[c2] = Return(Alice)

\* C3: when the producer fails, the call fails with the producer's failure
\* itself: for an identifier users_db does not hold that is the 404 "User
\* not found", and it is never the 500 of a cache error.
C3_ProducerFailurePropagates ==
    \A c \in Calls :
        trace[c].produced.kind = "raise" =>
            /\ pc[c] = "done"
            /\ outcome[c] = trace[c].produced
            /\ outcome[c].exc.status_code # 500
            /\ (asyncio_imported => outcome[c] = Raise(UserNotFound))

C3_Witness ==
    \E c \in Calls :
        /\ trace[c].produced = Raise(UserNotFound)
        /\ outcome[c] = Raise(UserNotFound)

\* C4: a call whose producer failed issued no cache write and set no entry,
\* and a later call with the same identifier whose read is answered misses
\* and invokes the producer again.
C4_FailedProducerWritesNothing ==
    \A c1 \in Calls :
        trace[c1].produced.kind = "raise" =>
            /\ trace[c1].writes = 0
            /\ trace[c1].set_key = ""
            /\ trace[c1].wrote = "none"
            /\ \A k \in DOMAIN written : written[k].by # c1
            /\ cache_key[c1] \notin DOMAIN store
            /\ \A c2 \in Calls :
                  ( /\ c1 \in trace[c2].after
                    /\ SameIdentifier(c1, c2)
                    /\ trace[c2].read \in {"hit", "miss"} )
                  => trace[c2].read = "miss" /\ trace[c2].invoked = 1

C4_Witness ==
    \E c1, c2 \in Calls :
        /\ trace[c1].produced = Raise(UserNotFound)
        /\ c1 \in trace[c2].after
        /\ SameIdentifier(c1, c2)
        /\ trace[c2].read = "miss"
        /\ trace[c2].produced = Raise(UserNotFound)

\* C5: when cache.set fails after the producer returned a result, the call
\* ends with the HTTP 500 "Error caching data" and not with the result.
C5_WriteFailureFailsTheCall ==
    \A c \in Calls :
        trace[c].wrote = "error" =>
            /\ trace[c].produced.kind = "return"
            /\ pc[c] = "done"
            /\ outcome[c].kind = "raise"
            /\ outcome[c].exc.type = "HTTPException"
            /\ outcome[c].exc.status_code = 500
            /\ outcome[c].exc.detail = "Error caching data: cache backend unreachable"

C5_Witness ==
    \E c \in Calls :
        /\ trace[c].wrote = "error"
        /\ trace[c].produced = Return(Alice)
        /\ outcome[c].kind = "raise"

\* C6: a call whose cache read is answered when the ttl has passed since the
\* last set of its key misses and invokes the producer.
C6_ExpiredEntryIsAMiss ==
    \A c \in Calls :
        (trace[c].found = "expired" /\ trace[c].read \in {"hit", "miss"}) =>
            /\ trace[c].read = "miss"
            /\ cached_value[c] = None
            /\ trace[c].invoked = 1

C6_Witness ==
    \E c \in Calls :
        /\ trace[c].found = "expired"
        /\ trace[c].read = "miss"
        /\ trace[c].invoked = 1
        /\ outcome[c] = Return(Alice)

\* C7: calls of two namespaces with the same identifier use different keys:
\* a hit in one namespace reads an entry set by a call of that namespace, and
\* every entry is one set under the key of the call that set it.
C7_NamespacesAreIsolated ==
    /\ \A c1, c2 \in Calls :
          ( /\ cache_key[c1] # ""
            /\ cache_key[c2] # ""
            /\ deco[c1].namespace # deco[c2].namespace )
          => cache_key[c1] # cache_key[c2]
    /\ \A c \in Calls :
          trace[c].read = "hit" =>
              deco[trace[c].hit_by].namespace = deco[c].namespace
    /\ \A k \in DOMAIN store : trace[written[k].by].set_key = k

C7_Witness ==
    \E c1, c2 \in Calls :
        /\ c1 \in trace[c2].after
        /\ user_id[c1] = user_id[c2]
        /\ deco[c1].namespace # deco[c2].namespace
        /\ trace[c1].wrote = "ok"
        /\ cache_key[c1] \in DOMAIN store
        /\ trace[c2].read = "miss"
        /\ trace[c2].found = "never"

\* C8: a call that missed and then set the cache read and set one key, the
\* entry is held under it, and the key is namespace:user:identifier
\* ("users:user:1" for namespace "users" and identifier 1).
C8_KeyConstruction ==
    \A c \in Calls :
        trace[c].wrote = "ok" =>
            /\ trace[c].read = "miss"
            /\ trace[c].set_key = trace[c].get_key
            /\ trace[c].set_key \in DOMAIN written
            /\ trace[c].set_key =
                  deco[c].namespace \o ":" \o "user" \o ":" \o ToString(user_id[c][1])
            /\ (deco[c].namespace = "users" /\ user_id[c] = Some(1))
                  => trace[c].set_key = "users:user:1"
            /\ (deco[c].namespace = "main" /\ user_id[c] = Some(1))
                  => trace[c].set_key = "main:user:1"

C8_Witness ==
    \E c \in Calls :
        /\ trace[c].wrote = "ok"
        /\ "users:user:1" \in DOMAIN store
        /\ written["users:user:1"].by = c

\* C9: the identifier of the key is the keyword argument user_id whenever it
\* is given, falsy values included, and the first positional argument
\* otherwise.
C9_IdentifierExtraction ==
    \A c \in Calls :
        pc[c] # "idle" =>
            LET k == KwargsGet(kwargs[c], "user_id")
            IN  /\ k # None => user_id[c] = k
                /\ (k = None /\ Len(args[c]) > 0) => user_id[c] = Some(args[c][1])

\* Every record of users_db survives encoding and decoding.
UsersDbRoundTrip ==
    \A i \in DOMAIN users_db : json_loads(json_dumps(users_db[i])) = users_db[i]

\* C10: decoding the value that the write-back encoded and stored gives the
\* result the producer returned, for every record of users_db and for every
\* entry of the store, and a hit returns the record that the call which set
\* the entry returned.
C10_RoundTrip ==
    /\ UsersDbRoundTrip
    /\ \A k \in DOMAIN store :
          json_loads(store[k].value) = trace[written[k].by].produced.value
    /\ \A c \in Calls :
          trace[c].read = "hit" =>
              /\ outcome[c] = Return(response[trace[c].hit_by][1])
              /\ outcome[c] = outcome[trace[c].hit_by]

C10_Witness ==
    \E c \in Calls :
        /\ trace[c].read = "hit"
        /\ outcome[c] = Return(Alice)
        /\ trace[trace[c].hit_by].wrote = "ok"

\* C11: within a call the cache read is answered before the producer is
\* invoked and the producer has returned before cache.set is issued: the
\* producer is invoked only after a miss, and cache.set only after the
\* producer returned a result.
C11_ReadProduceWriteInOrder ==
    \A c \in Calls :
        /\ pc[c] \in {"idle", "get"} =>
              trace[c].read = "none" /\ trace[c].invoked = 0 /\ trace[c].writes = 0
        /\ pc[c] = "func" =>
              trace[c].produced = Pending /\ trace[c].writes = 0
        /\ trace[c].invoked > 0 => trace[c].read = "miss"
        /\ trace[c].produced # Pending => trace[c].invoked > 0
        /\ trace[c].writes > 0 =>
              /\ trace[c].read = "miss"
              /\ trace[c].invoked > 0
              /\ trace[c].produced.kind = "return"
        /\ trace[c].wrote # "none" => trace[c].writes > 0

C11_Witness ==
    \E c \in Calls :
        /\ trace[c].read = "miss"
        /\ trace[c].produced = Return(Alice)
        /\ trace[c].wrote = "ok"
        /\ pc[c] = "done"

\* C12: a call issues at most one cache read, one producer invocation and one
\* cache write, each stage is passed once, and a call that has ended has
\* returned a value or raised an error.
C12_SinglePass ==
    \A c \in Calls :
        /\ trace[c].reads <= 1
        /\ trace[c].invoked <= 1
        /\ trace[c].writes <= 1
        /\ pc[c] = "get" => trace[c].reads = 1 /\ trace[c].read = "none"
        /\ pc[c] = "func" => trace[c].invoked = 1 /\ trace[c].produced = Pending
        /\ pc[c] = "set" => trace[c].writes = 1 /\ trace[c].wrote = "none"
        /\ pc[c] = "done" <=> outcome[c].kind \in {"return", "raise"}
        /\ pc[c] # "done" => outcome[c] = Pending

C12_Witness ==
    \E c1, c2 \in Calls :
        /\ pc[c1] = "done" /\ trace[c1].wrote = "error"
        /\ trace[c1].reads = 1 /\ trace[c1].invoked = 1 /\ trace[c1].writes = 1
        /\ pc[c2] = "done" /\ trace[c2].read = "error"
        /\ trace[c2].reads = 1 /\ trace[c2].invoked = 0 /\ trace[c2].writes = 0

\* Both calls use one key, both missed and invoked the producer, and both
\* ended with a cache.set that was done.
BothMissedAndWrote(c1, c2) ==
    /\ c1 # c2
    /\ cache_key[c1] = cache_key[c2]
    /\ trace[c1].read = "miss" /\ trace[c2].read = "miss"
    /\ trace[c1].invoked = 1 /\ trace[c2].invoked = 1
    /\ trace[c1].wrote = "ok" /\ trace[c2].wrote = "ok"

\* C13: nothing keeps two calls with one key from both missing, both
\* invoking the producer and both setting the key; the store then holds one
\* entry for the key, the one of the last set of the key (its value, and its
\* expiry counted from that set).
C13_LastWriteWins ==
    \A c1, c2 \in Calls :
        BothMissedAndWrote(c1, c2) =>
            LET k == cache_key[c1]
                last == written[k].by
            IN  /\ cache_key[last] = k
                /\ trace[last].read = "miss"
                /\ trace[last].wrote = "ok"
                /\ k \in DOMAIN store =>
                      /\ store[k].value = set_value[last][1]
                      /\ store[k].expire_at = Some(written[k].at + deco[last].ttl)

\* Both calls read before either had set the key, and the entry of the later
\* set is held.
C13_Witness ==
    \E c1, c2 \in Calls :
        /\ BothMissedAndWrote(c1, c2)
        /\ trace[c1].found = "never" /\ trace[c2].found = "never"
        /\ cache_key[c1] \in DOMAIN store
        /\ written[cache_key[c1]].by = c2
        /\ written[cache_key[c1]].at > 0

\* C14 as claimed: a call whose cache read failed goes on to invoke the
\* producer instead of failing.
C14_ReadFailureIsAMiss ==
    \A c \in Calls :
        trace[c].read = "error" =>
            /\ trace[c].invoked = 1
            /\ outcome[c] # Raise(ConnectionError)

\* C14 as amended: a call whose cache read failed ends with the failure of
\* the read; the producer is not invoked and no cache.set is issued.
C14_ReadFailurePropagates ==
    \A c \in Calls :
        trace[c].read = "error" =>
            /\ pc[c] = "done"
            /\ outcome[c] = Raise(ConnectionError)
            /\ trace[c].invoked = 0
            /\ trace[c].produced = Pending
            /\ trace[c].writes = 0

C14_Witness ==
    \E c \in Calls :
        /\ trace[c].read = "error"
        /\ pc[c] = "done"
        /\ user_id[c] = Some(1)
        /\ asyncio_imported

\* The call gives no positional argument and no truthy user_id keyword.
NoIdentifier(c) ==
    /\ pc[c] # "idle"
    /\ Len(args[c]) = 0
    /\ ~TruthyInt(KwargsGet(kwargs[c], "user_id"))

\* C15 as claimed: a call from which no identifier can be derived fails with
\* InvalidInvocation, before any cache read, producer invocation or write.
C15_InvalidInvocation ==
    \A c \in Calls :
        NoIdentifier(c) =>
            /\ pc[c] = "done"
            /\ outcome[c].kind = "raise"
            /\ outcome[c].exc.type = "InvalidInvocation"
            /\ trace[c].reads = 0 /\ trace[c].invoked = 0 /\ trace[c].writes = 0

\* C15 as amended: such a call fails with the IndexError of args[0] (line
\* 32), before any cache read, producer invocation or write.
C15_NoIdentifierIndexError ==
    \A c \in Calls :
        NoIdentifier(c) =>
            /\ pc[c] = "done"
            /\ outcome[c] = Raise(IndexError)
            /\ cache_key[c] = ""
            /\ trace[c].reads = 0 /\ trace[c].invoked = 0 /\ trace[c].writes = 0

C15_Witness ==
    \E c \in Calls :
        /\ NoIdentifier(c)
        /\ kwargs[c] = << >>
        /\ pc[c] = "done"
        /\ outcome[c].kind = "raise"

\* A step of a call (the clock stands still): no entry leaves the store, and
\* an entry that appears or changes is set by a call whose cache.set is done
\* in this step, under the key of that call's namespace and identifier.
FrameStep ==
    now' = now =>
        /\ DOMAIN store \subseteq DOMAIN store'
        /\ \A k \in DOMAIN store' :
              (k \notin DOMAIN store \/ store'[k] # store[k]) =>
                  \E c \in Calls :
                      /\ pc[c] = "set" /\ pc'[c] = "done"
                      /\ trace'[c].wrote = "ok"
                      /\ k = deco[c].namespace \o ":user:" \o ToString(user_id[c][1])

\* C16: in every interleaving, the only change a call makes to the store is
\* a set of the key of its own namespace and identifier: it deletes no entry
\* and changes no entry of another key.
C16_FrameOfACall == [][FrameStep]_vars

\* Two calls have set two keys, and both entries are held.
C16_Witness ==
    \E c1, c2 \in Calls :
        /\ trace[c1].wrote = "ok" /\ trace[c2].wrote = "ok"
        /\ cache_key[c1] # cache_key[c2]
        /\ cache_key[c1] \in DOMAIN store
        /\ cache_key[c2] \in DOMAIN store

\* C17: a call that hits issues no cache.set and sets no entry, so every
\* entry held expires ttl after the set that made it, whatever hits it had.
C17_HitLeavesStoreUnchanged ==
    /\ \A c \in Calls :
          trace[c].read = "hit" =>
              /\ trace[c].writes = 0
              /\ trace[c].set_key = ""
              /\ trace[c].wrote = "none"
              /\ \A k \in DOMAIN written : written[k].by # c
    /\ \A k \in DOMAIN store :
          /\ store[k].expire_at = Some(written[k].at + deco[written[k].by].ttl)
          /\ store[k].expire_at[1] > now

\* A call hit an entry, and the entry has expired ttl after its set.
C17_Witness ==
    \E c \in Calls :
        /\ trace[c].read = "hit"
        /\ pc[c] = "done"
        /\ cache_key[c] \notin DOMAIN store
        /\ now = written[cache_key[c]].at + deco[c].ttl

\* json.dumps of each record of users_db.
EncodedUsers == [i \in DOMAIN users_db |-> json_dumps(users_db[i])]

\* C18: every entry of the store is held under the key of a call whose
\* producer returned the record users_db holds for its identifier, and is the
\* encoding of that record; no failure is stored; every hit returns the
\* record users_db holds for the identifier.
C18_CacheContent ==
    /\ \A k \in DOMAIN store :
          LET w == written[k].by
          IN  /\ k = cache_key[w]
              /\ k = deco[w].namespace \o ":user:" \o ToString(user_id[w][1])
              /\ trace[w].produced.kind = "return"
              /\ user_id[w][1] \in DOMAIN users_db
              /\ trace[w].produced.value = users_db[user_id[w][1]]
              /\ store[k].value = EncodedUsers[user_id[w][1]]
    /\ \A c \in Calls :
          (trace[c].produced.kind = "raise" \/ trace[c].wrote = "error") =>
              \A k \in DOMAIN written : written[k].by # c
    /\ \A c \in Calls :
          trace[c].read = "hit" =>
              /\ user_id[c][1] \in DOMAIN users_db
              /\ outcome[c] = Return(users_db[user_id[c][1]])

C18_Witness ==
    \E c \in Calls :
        /\ trace[c].read = "hit"
        /\ outcome[c] = Return(Alice)
        /\ cache_key[c] \in DOMAIN store
        /\ store[cache_key[c]].value = EncodedUsers[1]

\* Results that are falsy in Python: an empty record, 0, None, "".
FalsyResults == << PyDict(<< >>), PyInt(0), PyNone, PyStr(<< >>) >>

\* The encoding of each falsy result is a text that line 41 takes as a hit,
\* and decodes to the result.
FalsyResultsReadBack ==
    \A i \in DOMAIN FalsyResults :
        /\ ~PyTruthy(FalsyResults[i])
        /\ IsHit(Some(json_dumps(FalsyResults[i])))
        /\ json_loads(json_dumps(FalsyResults[i])) = FalsyResults[i]

\* C19: every entry that wrapper wrote passes the test of line 41 when it is
\* read back, also for the encoding of a falsy result, so a call whose read
\* is answered within the ttl of the last set of its key hits.
C19_WrittenEntriesAreHits ==
    /\ FalsyResultsReadBack
    /\ \A k \in DOMAIN store : IsHit(Some(store[k].value))
    /\ \A c \in Calls :
          (trace[c].found = "fresh" /\ trace[c].read \in {"hit", "miss"}) =>
              /\ trace[c].read = "hit"
              /\ IsHit(cached_value[c])

C19_Witness ==
    \E c \in Calls :
        /\ trace[c].found = "fresh"
        /\ trace[c].read = "hit"
        /\ cached_value[c] = Some(EncodedUsers[1])
        /\ trace[trace[c].hit_by].wrote = "ok"

====
